---- MODULE Spec2Model ----
(***************************************************************************)
(* A model of the Daemon class of chia-ws (src/unnamed/part_001): the      *)
(* websocket client that registers with the chia daemon, queues requests,  *)
(* correlates responses by request_id and runs the connect, request, idle, *)
(* heartbeat and reconnect timers.                                         *)
(*                                                                         *)
(* Every handler of the class is a pure operator from a state record to a  *)
(* state record, named as in the source; every action of Next is one event *)
(* of the single-threaded event loop (an API call, a transport event, a    *)
(* timer) and applies the whole handler.                                   *)
(*                                                                         *)
(* The transport is the `ws` package.  What the model takes from it:       *)
(*  - terminate() does not silence the socket at once: its 'close' event   *)
(*    comes later, frames of the chunk being parsed are still handed to    *)
(*    the 'message' and 'pong' listeners, and callbacks of pending writes  *)
(*    are still called.  These are the events of an "old" transport.       *)
(*  - send() throws while the socket is still connecting.                  *)
(*  - the daemon answers only request ids it was sent on that transport.   *)
(* Callers pass fresh messages (no request_id of their own).               *)
(***************************************************************************)
EXTENDS Integers, Sequences, FiniteSets, TLC

\* ---------------------------------------------------------------- bounds
MaxReq == 3        \* prepare() calls after the counter's start (requests and registrations)
MaxStale == 1      \* torn-down transports whose 'close' is still undelivered
IdWidth == 2       \* bytes of the request id counter in the state machine
Cooldown == 2      \* the positive reconnect_cooldown that is explored
MaxAge == 3        \* Date.now() - connect_time is tracked up to this value

\* ------------------------------------------------------- program constants
ByteMax == 255

SERVICE_WALLET_UI == "wallet_ui"
SERVICE_DAEMON == "daemon"
SERVICE_NODE == "chia_full_node"
CMD_REGISTER_SERVICE == "register_service"
CMD_IS_RUNNING == "is_running"

NoCommand == "<none>"
Commands == {CMD_IS_RUNNING, "get_blockchain_state", "new_farming_info"}

\* the command router: the service a command is routed to, "" when unrouted
CMD_DST(cmd) ==
    CASE cmd = CMD_REGISTER_SERVICE -> SERVICE_DAEMON
      [] cmd = CMD_IS_RUNNING -> SERVICE_DAEMON
      [] cmd = "get_blockchain_state" -> SERVICE_NODE
      [] OTHER -> ""

Min(a, b) == IF a < b THEN a ELSE b
Max(a, b) == IF a > b THEN a ELSE b

\* ------------------------------------------------------ request id counter
RECURSIVE advance_from(_, _)
advance_from(v, i) ==
    IF i < 1 THEN v
    ELSE IF v[i] < ByteMax THEN [v EXCEPT ![i] = v[i] + 1]
    ELSE advance_from([v EXCEPT ![i] = 0], i - 1)

\* advance counting the first byte as the lowest
advance_little_endian(v) ==
    IF v[1] < ByteMax THEN [v EXCEPT ![1] = v[1] + 1]
    ELSE [v EXCEPT ![1] = 0, ![2] = (v[2] + 1) % (ByteMax + 1)]

\* increase a byte array (big endian) by one
advance(v) == advance_from(v, Len(v))

\* Buffer.toString('hex'): two hex digits per byte, high digit first
ToHex(v) ==
    [k \in 1..(2 * Len(v)) |->
        IF k % 2 = 1 THEN v[(k + 1) \div 2] \div 16 ELSE v[k \div 2] % 16]

\* the number a big-endian byte array stands for
RECURSIVE ToNat(_)
ToNat(v) ==
    IF Len(v) = 0 THEN 0
    ELSE ToNat(SubSeq(v, 1, Len(v) - 1)) * (ByteMax + 1) + v[Len(v)]

\* the number a hex digit string stands for
RECURSIVE HexToNat(_)
HexToNat(h) ==
    IF Len(h) = 0 THEN 0
    ELSE HexToNat(SubSeq(h, 1, Len(h) - 1)) * 16 + h[Len(h)]

\* how many values the counter has
IdSpace == (ByteMax + 1) ^ IdWidth

\* counter values the model starts from: 0, one before a carry out of the
\* last byte, one before the counter wraps
CounterStarts == {0, ByteMax - 1, IdSpace - 2}

\* Buffer.alloc(IdWidth) holding the number n
Alloc(n) == [i \in 1..IdWidth |-> (n \div ((ByteMax + 1) ^ (IdWidth - i))) % (ByteMax + 1)]

\* ------------------------------------------------------------------ state
VARIABLES
    \* options (constructor, fixed afterwards)
    connect_timeout, request_timeout, heartbeat_period, reconnect_cooldown,
    idle_timeout,
    \* fields of Daemon
    terminated, connected, disconnecting, sending,
    heartbeat_timer,    \* TRUE while the heartbeat timeout is pending
    reconnect_timer,    \* "false" | "pending" | "cleared" (cleared handle: truthy)
    connect_timer,      \* TRUE while the connect timeout is pending
    idle_timer,         \* 0 none, 1 first phase pending, 2 second phase pending
    ws,                 \* "false" | "connecting" | "open"
    req_queue,          \* sequence of request ids (the queued query objects)
    req_map,            \* request id -> query
    req_id,             \* the counter buffer
    \* the event loop and the transport
    auto_timer,         \* TRUE while the constructor's setTimeout(connect, 0) is pending
    query_timers,       \* request ids whose request timeout is pending
    connect_age,        \* Date.now() - connect_time (up to MaxAge)
    reconnect_left,     \* time left before the reconnect timeout may fire
    wcb_live,           \* write callbacks pending on the transport in ws
    wcb_old,            \* write callbacks pending on torn-down transports
    stale,              \* torn-down transports whose 'close' is undelivered
    crashed,            \* an exception left a listener or timer: the process is gone
    \* observation
    last_wire,          \* number of the caller request written last
    wait_left,          \* time left of the wait the last failure asks for
    calls               \* request id -> times its continuation was invoked

vars == <<connect_timeout, request_timeout, heartbeat_period, reconnect_cooldown,
          idle_timeout, terminated, connected, disconnecting, sending,
          heartbeat_timer, reconnect_timer, connect_timer, idle_timer, ws,
          req_queue, req_map, req_id, auto_timer, query_timers, connect_age,
          reconnect_left, wcb_live, wcb_old, stale, crashed, last_wire,
          wait_left, calls>>

\* the state as one record.  Three fields live only while a handler runs: out
\* (what it emitted, settled, wrote and returned, in order), threw (it ended
\* with an exception) and in_close (the event handled is the transport's
\* 'close')
Cur ==
    [connect_timeout |-> connect_timeout, request_timeout |-> request_timeout,
     heartbeat_period |-> heartbeat_period,
     reconnect_cooldown |-> reconnect_cooldown, idle_timeout |-> idle_timeout,
     terminated |-> terminated, connected |-> connected,
     disconnecting |-> disconnecting, sending |-> sending,
     heartbeat_timer |-> heartbeat_timer, reconnect_timer |-> reconnect_timer,
     connect_timer |-> connect_timer, idle_timer |-> idle_timer, ws |-> ws,
     req_queue |-> req_queue, req_map |-> req_map, req_id |-> req_id,
     auto_timer |-> auto_timer, query_timers |-> query_timers,
     connect_age |-> connect_age, reconnect_left |-> reconnect_left,
     wcb_live |-> wcb_live, wcb_old |-> wcb_old, stale |-> stale,
     crashed |-> crashed, last_wire |-> last_wire,
     wait_left |-> wait_left, calls |-> calls, out |-> <<>>,
     threw |-> FALSE, in_close |-> FALSE]

\* the next state is t; an exception that reaches the event loop ends the process
Apply(t) ==
    /\ connect_timeout' = t.connect_timeout
    /\ request_timeout' = t.request_timeout
    /\ heartbeat_period' = t.heartbeat_period
    /\ reconnect_cooldown' = t.reconnect_cooldown
    /\ idle_timeout' = t.idle_timeout
    /\ terminated' = t.terminated
    /\ connected' = t.connected
    /\ disconnecting' = t.disconnecting
    /\ sending' = t.sending
    /\ heartbeat_timer' = t.heartbeat_timer
    /\ reconnect_timer' = t.reconnect_timer
    /\ connect_timer' = t.connect_timer
    /\ idle_timer' = t.idle_timer
    /\ ws' = t.ws
    /\ req_queue' = t.req_queue
    /\ req_map' = t.req_map
    /\ req_id' = t.req_id
    /\ auto_timer' = t.auto_timer
    /\ query_timers' = t.query_timers
    /\ connect_age' = t.connect_age
    /\ reconnect_left' = t.reconnect_left
    /\ wcb_live' = t.wcb_live
    /\ wcb_old' = t.wcb_old
    /\ stale' = t.stale
    /\ crashed' = (t.crashed \/ t.threw)
    /\ last_wire' = t.last_wire
    /\ wait_left' = t.wait_left
    /\ calls' = t.calls

\* ----------------------------------------------------------- observations
NoId == <<>>
Ev(t, id, c) == [t |-> t, id |-> id, c |-> c]

\* EventEmitter.emit
emit(s, t, c) == [s EXCEPT !.out = Append(@, Ev(t, NoId, c))]

\* a continuation of query `id` is invoked: t is "ful" or "rej"
invoke(s, t, id, c) ==
    [s EXCEPT !.out = Append(@, Ev(t, id, c)),
              !.calls = [x \in DOMAIN @ \cup {id} |->
                            IF x = id
                            THEN (IF id \in DOMAIN @ THEN @[id] ELSE 0) + 1
                            ELSE @[x]]]

\* ---------------------------------------------------------------- helpers
wrap_error(err, reason) == IF err = "" THEN reason ELSE err

is_idle(s) == Len(s.req_queue) = 0 /\ DOMAIN s.req_map = {}

schedule_heartbeat(s) ==
    [s EXCEPT !.heartbeat_timer = (s.heartbeat_period > 0)]

schedule_idle(s) ==
    [s EXCEPT !.idle_timer = IF s.idle_timeout >= 0 /\ is_idle(s) THEN 1 ELSE 0]

\* Array.prototype.indexOf / splice(i, 1) on the queue
Without(q, id) == SelectSeq(q, LAMBDA x : x # id)

\* how many identifiers ago `id` was assigned, the counter being at `cur`
Age(id, cur) == (ToNat(cur) - HexToNat(id)) % IdSpace

\* the request ids of a map in insertion order (the keys are no array indices,
\* so an object lists them as inserted): the oldest identifier first
RECURSIVE KeysOf(_, _)
KeysOf(ids, cur) ==
    IF ids = {} THEN <<>>
    ELSE LET m == CHOOSE x \in ids : \A y \in ids : Age(x, cur) >= Age(y, cur)
         IN <<m>> \o KeysOf(ids \ {m}, cur)

\* Object.values(this.req_map): a snapshot of the queries, in insertion order
ValuesOf(s) ==
    LET ks == KeysOf(DOMAIN s.req_map, s.req_id)
    IN [i \in 1..Len(ks) |-> s.req_map[ks[i]]]

\* ------------------------------------------------------------ the transport
\* new WebSocket(url, ...)
new_WebSocket(s) == [s EXCEPT !.ws = "connecting"]

\* ws.terminate(): the handle's socket is destroyed.  Unless its 'close' is the
\* event being handled, the socket still has events to deliver; the callbacks
\* of its pending writes are still called; what was written on it is now on
\* an old transport.
terminate(s) ==
    LET more == ~s.in_close
    IN [s EXCEPT
          !.stale = IF more THEN Min(@ + 1, MaxStale) ELSE @,
          !.wcb_old = @ + s.wcb_live,
          !.wcb_live = 0,
          !.req_map = [x \in DOMAIN @ |->
                          IF @[x].on = "live"
                          THEN [@[x] EXCEPT !.on = IF more THEN "old" ELSE "gone"]
                          ELSE @[x]]]

\* prepare() runs inside query(), so the counter value in a caller request's
\* id numbers the query() calls in the order they were made
Ord(id) == HexToNat(id)

\* ws.send(data, cb) of the queued query `id`: throws unless the socket is open
ws_send(s, id) ==
    IF s.ws # "open" THEN [s EXCEPT !.threw = TRUE]
    ELSE [s EXCEPT !.wcb_live = @ + 1,
                   !.req_map[id].on = "live",
                   !.last_wire = Ord(id),
                   !.out = Append(@, Ev("write", id, ""))]

\* ------------------------------------------------------------------ Daemon
connect(s) ==
    IF s.terminated THEN s
    ELSE IF s.disconnecting THEN s
    ELSE IF s.reconnect_timer # "false" THEN s
    ELSE IF s.ws # "false" THEN s
    ELSE LET s1 == new_WebSocket(s)
             s2 == IF s.connect_timeout > 0
                   THEN [s1 EXCEPT !.connect_timer = TRUE] ELSE s1
         IN emit(s2, "debug", "Connecting...")

\* send_next taking the request queued last
send_next_lifo(s) ==
    IF Len(s.req_queue) = 0 THEN s
    ELSE IF ~s.connected THEN connect(s)
    ELSE IF s.sending THEN s
    ELSE LET id == s.req_queue[Len(s.req_queue)]
             s1 == [s EXCEPT !.sending = TRUE,
                             !.idle_timer = 0,
                             !.req_queue = SubSeq(@, 1, Len(@) - 1),
                             !.req_map[id].sent = "true"]
         IN ws_send(s1, id)

send_next(s) ==
    IF Len(s.req_queue) = 0 THEN s
    ELSE IF ~s.connected THEN connect(s)
    ELSE IF s.sending THEN s
    ELSE LET id == Head(s.req_queue)
             s1 == [s EXCEPT !.sending = TRUE,
                             !.idle_timer = 0,
                             !.req_queue = Tail(@),
                             !.req_map[id].sent = "true"]
         IN ws_send(s1, id)

\* the reconnect delay after a teardown (was: the connection was connected)
cooldown_after(s, was) ==
    IF was
    THEN s.reconnect_cooldown - Min(s.reconnect_cooldown, s.connect_age)
    ELSE s.reconnect_cooldown

\* the transport in ws completed its handshake: it is open and its
\* registration request is no longer awaiting a response
handshaken(s) ==
    /\ s.ws = "open"
    /\ \A x \in DOMAIN s.req_map : ~(s.req_map[x].reg /\ s.req_map[x].on = "live")

RECURSIVE disconnect(_, _, _)
RECURSIVE reject_query(_, _, _)
RECURSIVE reject_each(_, _, _)

\* the rejection continuation of query `id`: the caller's promise, or for the
\* registration request the handshake failure handler
rej(s, query, err) ==
    LET s1 == invoke(s, "rej", query.id, err)
    IN IF query.reg THEN disconnect(s1, "handshake failed", FALSE) ELSE s1

\* delete this.req_map[request_id]
Delete(map, id) == [x \in DOMAIN map \ {id} |-> map[x]]

\* reject_query leaving the entry in the map
reject_query_keep(s, query, err) ==
    LET s1 == [s EXCEPT !.query_timers = @ \ {query.id},
                        !.req_queue = Without(@, query.id)]
    IN rej(s1, query, err)

reject_query(s, query, err) ==
    LET s1 == [s EXCEPT !.query_timers = @ \ {query.id},
                        !.req_queue = Without(@, query.id),
                        !.req_map = Delete(@, query.id)]
    IN rej(s1, query, err)

\* the loop of disconnect over Object.values(req_map), taken before the loop
reject_each(s, values, err) ==
    IF Len(values) = 0 THEN s
    ELSE LET query == Head(values)
             s1 == IF \/ s.terminated
                      \/ s.reconnect_cooldown < 0
                      \/ query.sent = "true"
                   THEN reject_query(s, query, err) ELSE s
         IN reject_each(s1, Tail(values), err)

disconnect(s, err, idle) ==
    IF s.ws = "false" THEN s
    ELSE IF s.disconnecting THEN s
    ELSE LET was == s.connected
             e == wrap_error(err, "user disconnect")
             s1 == terminate([s EXCEPT !.disconnecting = TRUE,
                                       !.connected = FALSE,
                                       !.idle_timer = 0,
                                       !.connect_timer = FALSE,
                                       !.heartbeat_timer = FALSE])
             s2 == [s1 EXCEPT !.ws = "false"]
             s3 == reject_each(s2, ValuesOf(s2), e)
             s4 == [s3 EXCEPT !.disconnecting = FALSE]
             s5 == IF ~idle /\ s.reconnect_cooldown >= 0
                   THEN [s4 EXCEPT
                           !.reconnect_timer = "pending",
                           !.reconnect_left = cooldown_after(s4, was),
                           !.wait_left =
                               IF handshaken(s)
                               THEN Max(s.reconnect_cooldown - s.connect_age, 0)
                               ELSE s.reconnect_cooldown]
                   ELSE s4
         IN IF was THEN emit(s5, "close", e) ELSE emit(s5, "connect-error", e)

\* prepare(msg): msg is [command, destination]; command NoCommand is a message
\* without a command string, destination "" one without a destination string.
\* The result: the state, the exception thrown ("" none) and the request id.
\* prepare that takes the request id before it routes the command
prepare_id_first(s, msg) ==
    LET v == advance(s.req_id)
    IN IF msg.command = NoCommand
       THEN [s |-> s, err |-> "missing command", request_id |-> NoId]
       ELSE IF msg.destination = "" /\ CMD_DST(msg.command) = ""
       THEN [s |-> [s EXCEPT !.req_id = v], err |-> "unknown command destination",
             request_id |-> NoId]
       ELSE [s |-> [s EXCEPT !.req_id = v], err |-> "", request_id |-> ToHex(v)]

prepare(s, msg) ==
    IF msg.command = NoCommand
    THEN [s |-> s, err |-> "missing command", request_id |-> NoId]
    ELSE IF msg.destination = "" /\ CMD_DST(msg.command) = ""
    THEN [s |-> s, err |-> "unknown command destination", request_id |-> NoId]
    ELSE LET v == advance(s.req_id)
         IN [s |-> [s EXCEPT !.req_id = v], err |-> "", request_id |-> ToHex(v)]

\* create_query(req, timeout, ful, rej): reg tells whose continuations these are
create_query(s, request_id, timeout, reg) ==
    LET query == [id |-> request_id, sent |-> "undefined", reg |-> reg,
                  on |-> "none"]
    IN [s EXCEPT !.query_timers = IF timeout > 0 THEN @ \cup {request_id} ELSE @,
                 !.req_map = [x \in DOMAIN @ \cup {request_id} |->
                                 IF x = request_id THEN query ELSE @[x]]]

\* the fulfilment continuation of the registration request (lines 285-297)
registered(s) ==
    LET s1 == [s EXCEPT !.connect_timer = FALSE,
                        !.connected = TRUE,
                        !.connect_age = 0,
                        !.sending = FALSE]
        s2 == IF s.idle_timeout < 0 THEN schedule_heartbeat(s1) ELSE s1
        s3 == schedule_idle(s2)
    IN send_next(emit(s3, "open", ""))

\* the fulfilment continuation of a query
ful(s, query, res) ==
    LET s1 == invoke(s, "ful", query.id, res.tag)
    IN IF query.reg THEN registered(s1) ELSE s1

\* the 'open' listener: send register_service at once
on_open(s) ==
    LET p == prepare(s, [command |-> CMD_REGISTER_SERVICE, destination |-> ""])
        s1 == create_query(p.s, p.request_id, 0, TRUE)
    IN IF s1.ws # "open" THEN [s1 EXCEPT !.threw = TRUE]
       ELSE [s1 EXCEPT !.req_map[p.request_id].on = "live",
                       !.out = Append(@, Ev("write", p.request_id, "register"))]

\* the 'pong' listener
on_pong(s) == emit(schedule_heartbeat(s), "heartbeat", "")

\* the 'message' listener with the two spam types exchanged
on_message_types_swapped(s, msg) ==
    IF ~msg.json THEN disconnect(s, "expected json", FALSE)
    ELSE IF ~msg.ack
    THEN (IF s.connected THEN emit(s, "spam", "req") ELSE s)
    ELSE IF msg.request_id \notin DOMAIN s.req_map
    THEN (IF s.connected THEN emit(s, "spam", "ack") ELSE s)
    ELSE LET query == s.req_map[msg.request_id]
             s1 == [s EXCEPT !.req_map = Delete(@, msg.request_id)]
             s2 == schedule_idle(s1)
             s3 == [s2 EXCEPT !.query_timers = @ \ {msg.request_id}]
         IN IF msg.data.success THEN ful(s3, query, msg.data)
            ELSE rej(s3, query, "failed")

\* the 'message' listener; msg is [json, ack, request_id, data]
on_message(s, msg) ==
    IF ~msg.json THEN disconnect(s, "expected json", FALSE)
    ELSE IF ~msg.ack
    THEN (IF s.connected THEN emit(s, "spam", "ack") ELSE s)
    ELSE IF msg.request_id \notin DOMAIN s.req_map
    THEN (IF s.connected THEN emit(s, "spam", "req") ELSE s)
    ELSE LET query == s.req_map[msg.request_id]
             s1 == [s EXCEPT !.req_map = Delete(@, msg.request_id)]
             s2 == schedule_idle(s1)
             s3 == [s2 EXCEPT !.query_timers = @ \ {msg.request_id}]
         IN IF msg.data.success THEN ful(s3, query, msg.data)
            ELSE rej(s3, query, "failed")

\* the 'close' and 'error' listeners
on_close(s) == disconnect(s, "unexpected close", FALSE)
on_error(s) == disconnect(s, "connection error", FALSE)

\* the callback of ws.send in send_next
on_sent(s) == send_next([s EXCEPT !.sending = FALSE])

\* shutdown that only flags the daemon and leaves the transport alone
shutdown_flag_only(s) ==
    IF s.terminated THEN s
    ELSE [s EXCEPT !.terminated = TRUE,
                   !.reconnect_timer = IF @ = "pending" THEN "cleared" ELSE @]

shutdown(s) ==
    IF s.terminated THEN s
    ELSE LET s1 == [s EXCEPT !.terminated = TRUE,
                             !.reconnect_timer =
                                 IF @ = "pending" THEN "cleared" ELSE @]
         IN disconnect(s1, "terminated", TRUE)

\* cancel that rejects the continuation and leaves the entry in the map
cancel_leaves_entry(s, req, err) ==
    LET e == wrap_error(err, "user cancelled")
    IN IF req \notin DOMAIN s.req_map THEN [s |-> s, ret |-> "undefined"]
       ELSE LET query == s.req_map[req]
            IN [s |-> schedule_idle(reject_query_keep(s, query, e)),
                ret |-> query.sent]

\* cancel(req, err): the state and what is returned
cancel(s, req, err) ==
    LET e == wrap_error(err, "user cancelled")
    IN IF req \notin DOMAIN s.req_map THEN [s |-> s, ret |-> "undefined"]
       ELSE LET query == s.req_map[req]
            IN [s |-> schedule_idle(reject_query(s, query, e)),
                ret |-> query.sent]

\* query(req): throws, or queues the request and returns a promise; an
\* exception inside the promise's executor rejects the promise instead
query(s, msg) ==
    IF s.terminated THEN emit(s, "throw", "terminated")
    ELSE LET p == prepare(s, msg)
         IN IF p.err # "" THEN emit(s, "throw", p.err)
            ELSE LET s1 == [p.s EXCEPT !.idle_timer = 0]
                     s2 == create_query(s1, p.request_id, s.request_timeout, FALSE)
                     s3 == send_next([s2 EXCEPT
                                        !.req_queue = Append(@, p.request_id)])
                 IN IF s3.threw
                    THEN [s3 EXCEPT !.threw = FALSE,
                                    !.out = Append(@, Ev("executor-threw",
                                                         p.request_id, ""))]
                    ELSE s3

\* ----------------------------------------------------------------- timers
on_connect_timeout(s) == disconnect(s, "connect timeout", FALSE)

on_request_timeout(s, request_id) == cancel(s, request_id, "timeout").s

on_heartbeat(s) ==
    IF s.ws # "open" THEN [s EXCEPT !.threw = TRUE]
    ELSE [s EXCEPT !.out = Append(@, Ev("ping", NoId, ""))]

on_idle_phase1(s) == [s EXCEPT !.idle_timer = 2]

on_idle_phase2(s) == disconnect(s, "idle timeout", TRUE)

on_reconnect(s) ==
    LET s1 == [s EXCEPT !.reconnect_timer = "false"]
    IN IF s.idle_timeout >= 0 /\ is_idle(s1) THEN s1 ELSE connect(s1)

\* ------------------------------------------------------- initial states
\* The options explored.  The connect, request and heartbeat timeouts are on
\* (a pending timeout need never fire, so what happens without one happens
\* here too); reconnection is off (-1) or on; the idle timeout is off (-1) or
\* on (0: both of its phases are immediate).  How long a timeout lasts matters
\* for the reconnect cooldown alone: Spec explores cooldown 0, SpecTimed the
\* cooldown Cooldown with the clock.
Payloads == {"a", "b"}

\* new Daemon(opts) with reconnect_cooldown in cooldowns; the counter starts
\* at 0, and at the other values of `starts` the daemon is one that has
\* assigned that many identifiers, all settled, and has no transport
Constructed(cooldowns, starts, timeout) ==
    /\ connect_timeout = timeout
    /\ request_timeout = timeout
    /\ heartbeat_period = timeout
    /\ reconnect_cooldown \in cooldowns
    /\ idle_timeout \in {-1, 0}
    /\ terminated = FALSE
    /\ connected = FALSE
    /\ disconnecting = FALSE
    /\ sending = FALSE
    /\ heartbeat_timer = FALSE
    /\ reconnect_timer = "false"
    /\ connect_timer = FALSE
    /\ idle_timer = 0
    /\ ws = "false"
    /\ req_queue = <<>>
    /\ req_map = <<>>
    /\ req_id \in {Alloc(n) : n \in starts}
    /\ auto_timer = (idle_timeout < 0 /\ reconnect_cooldown >= 0)
    /\ query_timers = {}
    /\ connect_age = 0
    /\ reconnect_left = 0
    /\ wcb_live = 0
    /\ wcb_old = 0
    /\ stale = 0
    /\ crashed = FALSE
    /\ last_wire = 0
    /\ wait_left = 0
    /\ calls = <<>>

Init == Constructed({-1, 0}, {0}, 1)
InitTimed == Constructed({Cooldown}, {0}, 1)
InitCounter == Constructed({-1}, CounterStarts, 1)
\* reconnection on, the connect, request and heartbeat timeouts off (0)
InitWrites == Constructed({0}, {0}, 0)

\* ---------------------------------------------------------------- actions
\* the process runs, and the counter has not reached the bound of the model
Running == ~crashed
\* without the timeouts there is less to explore: one more prepare() is made
Budget == IF request_timeout > 0 THEN MaxReq ELSE MaxReq + 1
CanPrepare == \E st \in CounterStarts : (ToNat(req_id) - st) % IdSpace < Budget

\* values that are not read until they are set again are kept at 0
Step(t) ==
    Apply([t EXCEPT !.connect_age = IF t.connected THEN @ ELSE 0,
                    !.reconnect_left = IF t.reconnect_timer = "pending" THEN @ ELSE 0])

Messages == [command : Commands \cup {NoCommand}, destination : {"", SERVICE_DAEMON}]

\* the caller: query(msg)
Query ==
    /\ Running /\ CanPrepare
    /\ \E msg \in Messages : Step(query(Cur, msg))

\* the caller: cancel(request_id, err) of one of its requests or of an unknown one
Cancel ==
    /\ Running
    /\ \E id \in {x \in DOMAIN req_map : ~req_map[x].reg} \cup {NoId},
          err \in {"", "caller's error"} :
          LET c == cancel(Cur, id, err)
          IN Step([c.s EXCEPT !.out = Append(@, Ev("cancel-returned", id, c.ret))])

\* the caller: shutdown()
Shutdown == Running /\ Step(shutdown(Cur))

\* the caller: connect()
Connect == Running /\ Step(connect(Cur))

\* the caller: disconnect(undefined, idle)
Disconnect == Running /\ \E idle \in BOOLEAN : Step(disconnect(Cur, "", idle))

\* the constructor's setTimeout(() => this.connect(), 0)
AutoConnect ==
    /\ Running /\ auto_timer
    /\ Step(connect([Cur EXCEPT !.auto_timer = FALSE]))

\* the transport in ws opens
Open ==
    /\ Running /\ CanPrepare /\ ws = "connecting"
    /\ Step(on_open([Cur EXCEPT !.ws = "open"]))

\* a transport can still deliver events: the one in ws, or a torn-down one
Delivers(src) == IF src = "live" THEN ws = "open" ELSE stale > 0

\* what a transport may deliver: a frame that is no JSON, a message without
\* ack, a response to a request id unknown here, a response to a request that
\* was written on it
Inbound(src) ==
    {[json |-> FALSE, ack |-> FALSE, request_id |-> NoId,
      data |-> [success |-> FALSE, tag |-> "a"]]}
    \cup [json : {TRUE}, ack : BOOLEAN, request_id : {NoId},
          data : [success : {TRUE}, tag : {"a"}]]
    \cup [json : {TRUE}, ack : {TRUE},
          request_id : {x \in DOMAIN req_map : req_map[x].on = src},
          data : [success : BOOLEAN, tag : Payloads]]

Message ==
    /\ Running
    /\ \E src \in {"live", "old"} :
          /\ Delivers(src)
          /\ \E msg \in Inbound(src) : Step(on_message(Cur, msg))

Pong ==
    /\ Running
    /\ \E src \in {"live", "old"} : Delivers(src) /\ Step(on_pong(Cur))

\* 'error' of the transport in ws; its 'close' follows
TransportError ==
    /\ Running /\ ws # "false"
    /\ Step(on_error(Cur))

\* 'close' of the transport in ws, after the callbacks of its writes
TransportClose ==
    /\ Running /\ ws # "false" /\ wcb_live = 0
    /\ Step(on_close([Cur EXCEPT !.in_close = TRUE]))

\* 'close' of a torn-down transport: it delivers nothing after it
StaleClose ==
    /\ Running /\ stale > 0 /\ wcb_old = 0
    /\ LET s1 == [Cur EXCEPT
                    !.stale = @ - 1,
                    !.req_map = [x \in DOMAIN @ |->
                                    IF @[x].on = "old" /\ stale = 1
                                    THEN [@[x] EXCEPT !.on = "gone"] ELSE @[x]]]
       IN Step(on_close(s1))

\* the callback of a write on the transport in ws
WriteDone ==
    /\ Running /\ wcb_live > 0
    /\ Step(on_sent([Cur EXCEPT !.wcb_live = @ - 1]))

\* the callback of a write on a torn-down transport
StaleWriteDone ==
    /\ Running /\ wcb_old > 0
    /\ Step(on_sent([Cur EXCEPT !.wcb_old = @ - 1]))

ConnectTimeout ==
    /\ Running /\ connect_timer
    /\ Step(on_connect_timeout([Cur EXCEPT !.connect_timer = FALSE]))

RequestTimeout ==
    /\ Running
    /\ \E id \in query_timers :
          Step(on_request_timeout([Cur EXCEPT !.query_timers = @ \ {id}], id))

Heartbeat ==
    /\ Running /\ heartbeat_timer
    /\ Step(on_heartbeat([Cur EXCEPT !.heartbeat_timer = FALSE]))

IdlePhase1 == Running /\ idle_timer = 1 /\ Step(on_idle_phase1(Cur))

IdlePhase2 ==
    /\ Running /\ idle_timer = 2
    /\ Step(on_idle_phase2([Cur EXCEPT !.idle_timer = 0]))

Reconnect ==
    /\ Running /\ reconnect_timer = "pending" /\ reconnect_left = 0
    /\ Step(on_reconnect(Cur))

\* one unit of time passes
Tick ==
    /\ Running
    /\ \/ reconnect_left > 0
       \/ wait_left > 0
       \/ connected /\ reconnect_cooldown > 0 /\ connect_age < MaxAge
    /\ Step([Cur EXCEPT
               !.reconnect_left = Max(@ - 1, 0),
               !.wait_left = Max(@ - 1, 0),
               !.connect_age = IF reconnect_cooldown > 0 THEN Min(@ + 1, MaxAge) ELSE @])

Untimed ==
    \/ Query \/ Cancel \/ Shutdown \/ Connect \/ Disconnect
    \/ AutoConnect \/ Open \/ Message \/ Pong \/ TransportError
    \/ TransportClose \/ StaleClose \/ WriteDone \/ StaleWriteDone
    \/ ConnectTimeout \/ RequestTimeout \/ Heartbeat \/ IdlePhase1
    \/ IdlePhase2 \/ Reconnect

Next == Untimed
NextTimed == Untimed \/ Tick

\* the operations that assign identifiers and those that settle requests
NextCounter ==
    \/ Query \/ Connect \/ Disconnect \/ Open \/ Message
    \/ TransportClose \/ StaleClose \/ RequestTimeout
    \/ IdlePhase1 \/ IdlePhase2

\* the events of a transport in ws, and the last events of a torn-down
\* transport while the next one has not opened yet
LiveMessage ==
    /\ Running /\ Delivers("live")
    /\ \E msg \in Inbound("live") : Step(on_message(Cur, msg))

EarlyStaleMessage ==
    /\ Running /\ Delivers("old") /\ ws # "open"
    /\ \E msg \in Inbound("old") : Step(on_message(Cur, msg))

EarlyStaleClose == ws # "open" /\ StaleClose

EarlyStaleWriteDone == ws # "open" /\ StaleWriteDone

\* requests, writes and their callbacks, teardowns and reconnects
NextWrites ==
    \/ Query \/ Cancel \/ Connect \/ Disconnect \/ AutoConnect \/ Open
    \/ LiveMessage \/ EarlyStaleMessage \/ TransportClose \/ EarlyStaleClose
    \/ WriteDone \/ EarlyStaleWriteDone \/ Reconnect

Spec == Init /\ [][Next]_vars
SpecWrites == InitWrites /\ [][NextWrites]_vars
SpecCounter == InitCounter /\ [][NextCounter]_vars
SpecTimed == InitTimed /\ [][NextTimed]_vars

\* ------------------------------------------------------------------ claims
Range(f) == {f[x] : x \in DOMAIN f}
CallerIds == {x \in DOMAIN req_map : ~req_map[x].reg}
Routable == {m \in Messages : m.command # NoCommand /\ CMD_DST(m.command) # ""
                              /\ m.destination = ""}
Unroutable == {m \in Messages : m.command # NoCommand /\ CMD_DST(m.command) = ""
                                /\ m.destination = ""}

\* C1: caller requests are written to the transport in the order of their
\* query() calls: every write is of a request issued after the one written
\* before it, whatever connects, teardowns and reconnects lie between.
C1_WriteOrder == [][last_wire' # last_wire => last_wire' > last_wire]_vars

\* two requests issued before the connection opened are both written, the
\* first one first, after a transport had been torn down
C1_Witness ==
    /\ last_wire = 2 /\ ToNat(req_id) = 3 /\ stale > 0
    /\ \A n \in {1, 2} : \E x \in CallerIds : Ord(x) = n /\ req_map[x].sent = "true"

C3_ShutdownIdempotent ==
    /\ terminated => shutdown(Cur) = Cur
    /\ ~terminated =>
          \A id \in DOMAIN req_map :
              req_map[id].on = "live" =>
                  /\ Ev("rej", id, "terminated") \in Range(shutdown(Cur).out)
                  /\ id \notin DOMAIN shutdown(Cur).req_map
                  /\ shutdown(shutdown(Cur)) = shutdown(Cur)

\* shutdown() meets a written request that awaits its response, reconnection on
C3_Witness ==
    /\ ~terminated
    /\ \E id \in CallerIds : req_map[id].on = "live" /\ req_map[id].sent = "true"
    /\ reconnect_cooldown >= 0
    /\ shutdown(Cur).terminated /\ shutdown(Cur).req_map = <<>>

\* C4: once terminated there is no transport, connected is false, connect()
\* starts nothing and query() throws the terminated error and changes nothing.
C4_TerminatedIsTerminal ==
    (terminated /\ ~crashed) =>
        /\ ws = "false"
        /\ ~connected
        /\ connect(Cur) = Cur
        /\ \A msg \in Messages : query(Cur, msg) = emit(Cur, "throw", "terminated")

\* C5: the first shutdown() leaves the send queue and the map empty, every
\* request in them rejected with the terminated error.
C5_ShutdownCancelsAll ==
    ~terminated =>
        LET t == shutdown(Cur)
        IN /\ t.req_queue = <<>>
           /\ t.req_map = <<>>
           /\ \A id \in DOMAIN req_map : Ev("rej", id, "terminated") \in Range(t.out)

\* C6: a connect attempt starts only when the wait the last failure asks for
\* is over: max(C - D, 0) after a connection that was connected for D, C
\* after an attempt that never completed its handshake.
C6_CooldownRespected ==
    [][(ws = "false" /\ ws' # "false") => wait_left = 0]_vars

\* a connection that was connected for less than the cooldown failed, the
\* rest of the cooldown has passed and a request is waiting
C6_Witness ==
    /\ reconnect_cooldown = Cooldown /\ reconnect_timer = "pending"
    /\ reconnect_left = 0 /\ wait_left = 0
    /\ req_queue # <<>> /\ ws = "false"
    /\ \E id \in DOMAIN calls : TRUE

\* C7: with an idle timeout, a connected daemon with an empty queue and map
\* has its idle timer pending; the second phase tears the transport down and
\* schedules no reconnect; query() clears the idle timer and no idle timer is
\* pending while a caller request is outstanding; with reconnection off the
\* teardown leaves no transport and no pending timer.
C7_IdleTeardown ==
    /\ (idle_timeout >= 0 /\ connected /\ is_idle(Cur) /\ ~crashed) => idle_timer # 0
    /\ (idle_timer = 2 /\ connected /\ ws # "false") =>
          LET t == on_idle_phase2([Cur EXCEPT !.idle_timer = 0])
          IN /\ t.ws = "false" /\ ~t.connected
             /\ t.reconnect_timer = reconnect_timer /\ t.reconnect_timer # "pending"
             /\ t.out = <<Ev("close", NoId, "idle timeout")>>
             /\ reconnect_cooldown < 0 =>
                   /\ t.idle_timer = 0 /\ ~t.connect_timer /\ ~t.heartbeat_timer
                   /\ t.query_timers = {} /\ ~t.auto_timer
    /\ ~terminated => \A msg \in Routable : query(Cur, msg).idle_timer = 0
    /\ idle_timer # 0 => (req_queue = <<>> /\ CallerIds = {})

\* the second phase of the idle timer is pending on a connection that has
\* answered a request, with reconnection off
C7_Witness ==
    /\ idle_timeout = 0 /\ reconnect_cooldown < 0
    /\ idle_timer = 2 /\ connected /\ ws = "open"
    /\ \E id \in DOMAIN calls : HexToNat(id) > 1
    /\ on_idle_phase2([Cur EXCEPT !.idle_timer = 0]).ws = "false"

\* C8 as claimed: prepare() and query() of a command without a route fail with
\* the unknown-destination error and change nothing.
C8_UnroutableFails ==
    \A msg \in Unroutable :
        /\ prepare(Cur, msg) = [s |-> Cur, err |-> "unknown command destination",
                                request_id |-> NoId]
        /\ query(Cur, msg) = emit(Cur, "throw", "unknown command destination")

\* C8 as the code has it: after shutdown() query() fails with the terminated
\* error instead; in both cases nothing changes.
C8_UnroutableFailsUnlessTerminated ==
    \A msg \in Unroutable :
        /\ prepare(Cur, msg) = [s |-> Cur, err |-> "unknown command destination",
                                request_id |-> NoId]
        /\ query(Cur, msg) =
              emit(Cur, "throw", IF terminated THEN "terminated"
                                 ELSE "unknown command destination")

\* an unroutable command meets a daemon with requests, timers and a transport
C8_Witness ==
    /\ ~terminated /\ connected /\ ws = "open"
    /\ req_queue # <<>> /\ query_timers # {} /\ ToNat(req_id) > 0
    /\ \E msg \in Unroutable : query(Cur, msg).out = <<Ev("throw", NoId,
                                                "unknown command destination")>>

\* C9: the identifier prepare() assigns, to a caller request and to the
\* registration request alike, is the fixed-width big-endian value of the
\* counter plus one (zero after the last value), the counter then holds it,
\* it is greater than the one before unless the counter wrapped, and no
\* request in the correlation map carries it.
FixedHex(n) ==
    [k \in 1..(2 * IdWidth) |-> (n \div (16 ^ (2 * IdWidth - k))) % 16]

Assignable == Routable \cup {[command |-> CMD_REGISTER_SERVICE, destination |-> ""]}

C9_NextIdentifier ==
    \A msg \in Assignable :
        LET p == prepare(Cur, msg)
            n == (ToNat(req_id) + 1) % IdSpace
        IN /\ p.err = ""
           /\ p.request_id = FixedHex(n)
           /\ ToHex(p.s.req_id) = p.request_id
           /\ Len(p.s.req_id) = IdWidth
           /\ (n # 0 => HexToNat(p.request_id) > ToNat(req_id))
           /\ (n = 0 => ToNat(req_id) = IdSpace - 1)
           /\ p.request_id \notin DOMAIN req_map

\* requests are outstanding whose identifiers lie on both sides of a carry
\* out of the last byte
C9_Witness ==
    /\ FixedHex(ByteMax) \in DOMAIN req_map
    /\ FixedHex(ByteMax + 1) \in DOMAIN req_map
    /\ FixedHex(ByteMax + 2) \in DOMAIN req_map
    /\ req_id = Alloc(ByteMax + 2)

\* C10: a query() for a routable command made without a transport (and
\* outside a reconnect cooldown) starts a connect attempt; a caller request is
\* on the transport in ws only when that transport's registration request
\* has been answered; a successful response with the identifier of an
\* outstanding caller request fulfils its continuation with the payload and
\* removes the entry.
Response(id, tag) ==
    [json |-> TRUE, ack |-> TRUE, request_id |-> id,
     data |-> [success |-> TRUE, tag |-> tag]]

C10_QueryRoundTrip ==
    /\ (ws = "false" /\ ~connected /\ reconnect_timer = "false"
           /\ ~terminated /\ ~crashed) =>
          \A msg \in Routable : query(Cur, msg).ws = "connecting"
    /\ \A id \in CallerIds : req_map[id].on = "live" => handshaken(Cur)
    /\ \A id \in CallerIds : \A tag \in Payloads :
          LET t == on_message(Cur, Response(id, tag))
          IN /\ Ev("ful", id, tag) \in Range(t.out)
             /\ id \notin DOMAIN t.req_map

\* a request made without a transport has been written after the handshake
\* of the connection it started and awaits its response
C10_Witness ==
    /\ reconnect_cooldown < 0 /\ idle_timeout = 0
    /\ connected /\ handshaken(Cur) /\ stale = 0
    /\ \E id \in CallerIds :
          /\ req_map[id].on = "live"
          /\ Ev("ful", id, "b") \in Range(on_message(Cur, Response(id, "b")).out)

\* parsed messages that answer no outstanding query: without the
\* acknowledgment flag, or with it and an identifier that is not in the map
\* (none, or one of a request that was settled)
NoAck ==
    [json : {TRUE}, ack : {FALSE}, request_id : {NoId} \cup DOMAIN calls \cup DOMAIN req_map,
     data : [success : BOOLEAN, tag : Payloads]]
Unmatched ==
    [json : {TRUE}, ack : {TRUE}, request_id : ({NoId} \cup DOMAIN calls) \ DOMAIN req_map,
     data : [success : BOOLEAN, tag : Payloads]]

\* C11 as claimed: while connected, a message with the flag and no matching
\* query is surfaced as spam of type ack, one without the flag as type req.
C11_SpamTypesAsClaimed ==
    connected =>
        /\ \A msg \in Unmatched : on_message(Cur, msg) = emit(Cur, "spam", "ack")
        /\ \A msg \in NoAck : on_message(Cur, msg) = emit(Cur, "spam", "req")

\* C11 as the code has it: the type names the test that failed: ack for a
\* message without the flag, req for one with the flag and no matching query;
\* nothing else changes.
C11_SpamTypeNamesFailedTest ==
    connected =>
        /\ \A msg \in NoAck : on_message(Cur, msg) = emit(Cur, "spam", "ack")
        /\ \A msg \in Unmatched : on_message(Cur, msg) = emit(Cur, "spam", "req")

\* a connected daemon with an outstanding request and a settled one, so that
\* unsolicited messages carry the identifier of either
C11_Witness ==
    /\ connected /\ ws = "open" /\ CallerIds # {}
    /\ \E id \in DOMAIN calls :
          /\ Response(id, "a") \in Unmatched
          /\ on_message(Cur, Response(id, "a")).out = <<Ev("spam", NoId, "req")>>
    /\ \E msg \in NoAck :
          /\ msg.request_id \in CallerIds
          /\ on_message(Cur, msg).out = <<Ev("spam", NoId, "ack")>>

\* C12: cancel() of a request in the map returns true when the request was
\* written and false when it was still only queued; it returns undefined only
\* for a request that is not in the map.
C12_CancelTellsSent ==
    /\ \A id \in CallerIds :
          cancel(Cur, id, "").ret =
              IF id \in Range(req_queue) THEN "false" ELSE "true"
    /\ \A id \in ({NoId} \cup DOMAIN calls) \ DOMAIN req_map :
          cancel(Cur, id, "").ret = "undefined"

\* a queued request and a written one are both in the map
C12_Witness ==
    /\ \E id \in CallerIds : id \in Range(req_queue) /\ cancel(Cur, id, "").ret = "undefined"
    /\ \E id \in CallerIds : req_map[id].on = "live" /\ cancel(Cur, id, "").ret = "true"

\* C13: a teardown rejects with its error and removes every entry of the map
\* that was written to a transport, and every entry when the daemon is
\* terminated or reconnection is off; with reconnection on, the requests
\* that are only queued stay in the queue, in their order, and in the map.
Written(id) == req_map[id].on # "none"

C13_TeardownSettlesWritten ==
    (ws # "false" /\ ~disconnecting /\ ~crashed) =>
        \A idle \in BOOLEAN :
            LET t == disconnect(Cur, "closed", idle)
                all == terminated \/ reconnect_cooldown < 0
            IN /\ \A id \in DOMAIN req_map :
                     (Written(id) \/ all) =>
                         /\ Ev("rej", id, "closed") \in Range(t.out)
                         /\ id \notin DOMAIN t.req_map
               /\ ~all =>
                     /\ t.req_queue = req_queue
                     /\ \A id \in Range(req_queue) :
                           id \in DOMAIN t.req_map /\ id \notin DOMAIN t.calls

\* a teardown with reconnection on meets a written request and a queued one
C13_Witness ==
    /\ ws = "open" /\ connected /\ reconnect_cooldown >= 0 /\ ~terminated
    /\ \E id \in CallerIds : Written(id)
    /\ \E id \in CallerIds : id \in Range(req_queue)
    /\ disconnect(Cur, "closed", FALSE).req_queue = req_queue

\* C14: at most one write of a queued request awaits its completion
\* callback on the transport in ws: send_next starts no write while an
\* earlier one is pending.
C14_OneWriteOutstanding == wcb_live <= 1

\* a write is pending on a registered connection and a request waits behind
\* it in the queue
C14_Witness ==
    /\ wcb_live = 1 /\ sending /\ connected /\ ws = "open"
    /\ req_queue # <<>>
    /\ \E x \in DOMAIN calls : x \notin DOMAIN req_map

\* C15: connect() creates a transport only when the daemon is not
\* terminated, no teardown is in progress, no reconnect timer is set and no
\* transport handle exists; a transport handle never coexists with a pending
\* reconnect timer; connected is true only while a transport handle exists.
\* (That there is one handle at most is the single field ws.)
C15_ConnectGuards ==
    /\ \A d \in BOOLEAN :
          LET s == [Cur EXCEPT !.disconnecting = d]
              t == connect(s)
              may == ~terminated /\ ~d /\ reconnect_timer = "false" /\ ws = "false"
          IN /\ may => t.ws = "connecting"
             /\ ~may => t = s
    /\ ~(ws # "false" /\ reconnect_timer = "pending")
    /\ (connected /\ Running) => ws # "false"

\* connect() is called in a reconnect cooldown with a request waiting
C15_Witness ==
    /\ reconnect_timer = "pending" /\ ws = "false" /\ req_queue # <<>>
    /\ ~terminated /\ connect(Cur) = Cur

\* C16: the heartbeat timer is pending only with a positive heartbeat
\* period, a negative idle timeout and a connected daemon; with an idle
\* timeout of 0 or more no expiry of it sends a ping.  Stated for the states
\* in which no torn-down transport has events left to deliver, so that only
\* events of the transport in ws have led there.
C16_HeartbeatOnlyWhenForever ==
    (stale = 0 /\ Running) =>
        /\ heartbeat_timer =>
              heartbeat_period > 0 /\ idle_timeout < 0 /\ connected
        /\ (heartbeat_timer /\ idle_timeout >= 0) =>
              Ev("ping", NoId, "") \notin
                  Range(on_heartbeat([Cur EXCEPT !.heartbeat_timer = FALSE]).out)

\* a pong arrives on the open transport of a daemon with an idle timeout
C16_Witness ==
    /\ idle_timeout >= 0 /\ ws = "open" /\ connected /\ ~heartbeat_timer
    /\ stale = 0
    /\ on_pong(Cur).heartbeat_timer

\* C17: a teardown of a transport emits exactly one lifecycle notification,
\* with the cause: close when the transport had completed its handshake,
\* connect-error otherwise.
Lifecycle(out) == SelectSeq(out, LAMBDA e : e.t \in {"close", "connect-error"})

C17_CloseOnlyAfterOpen ==
    (ws # "false" /\ ~disconnecting /\ Running) =>
        \A idle \in BOOLEAN :
            Lifecycle(disconnect(Cur, "closed", idle).out) =
                <<Ev(IF handshaken(Cur) THEN "close" ELSE "connect-error",
                     NoId, "closed")>>

\* a teardown meets a connection that completed its handshake, with a
\* written request whose rejection comes before the notification
C17_Witness ==
    /\ handshaken(Cur) /\ connected /\ stale = 0
    /\ \E id \in CallerIds : Written(id)
    /\ Len(disconnect(Cur, "closed", FALSE).out) > 1
    /\ Lifecycle(disconnect(Cur, "closed", FALSE).out) = <<Ev("close", NoId, "closed")>>

\* C18: cancel() of a written request invokes its rejection continuation
\* with the cause inside the call and removes the entry; a response that
\* arrives for the identifier afterwards invokes no continuation and changes
\* nothing: it is emitted as spam when connected and dropped otherwise.
AnyResponse(id) ==
    [json : {TRUE}, ack : {TRUE}, request_id : {id},
     data : [success : BOOLEAN, tag : Payloads]]

C18_CancelThenResponse ==
    \A id \in {x \in CallerIds : Written(x)} : \A err \in {"", "caller's error"} :
        LET c == cancel(Cur, id, err)
            after == [c.s EXCEPT !.out = <<>>]
        IN /\ SelectSeq(c.s.out, LAMBDA e : e.id # NoId) =
                  <<Ev("rej", id, wrap_error(err, "user cancelled"))>>
           /\ c.s.calls[id] = 1
           /\ id \notin DOMAIN c.s.req_map
           /\ \A msg \in AnyResponse(id) :
                 on_message(after, msg) =
                     IF after.connected THEN emit(after, "spam", "req") ELSE after

\* a written request is cancelled on a connected daemon while another
\* request is outstanding, and its response arrives afterwards
C18_Witness ==
    /\ connected /\ ws = "open"
    /\ \E id \in CallerIds :
          /\ Written(id) /\ CallerIds # {id}
          /\ on_message([cancel(Cur, id, "").s EXCEPT !.out = <<>>],
                        Response(id, "a")).out = <<Ev("spam", NoId, "req")>>

\* C19: while there is no transport, every entry of the correlation map is
\* still in the send queue (nothing written on an earlier transport is left
\* in the map), and is_idle holds exactly when no caller request is queued
\* or awaiting a response.
Queued == {req_queue[i] : i \in DOMAIN req_queue}

C19_MapWithinQueue ==
    (ws = "false" /\ Running) =>
        /\ DOMAIN req_map \subseteq Queued
        /\ is_idle(Cur) <=> (CallerIds = {} /\ Queued = {})

\* a transport on which something was written has been torn down and a
\* caller request waits in the queue
C19_Witness ==
    /\ ws = "false" /\ stale > 0 /\ Running
    /\ last_wire > 0
    /\ Queued # {} /\ Queued \subseteq CallerIds

\* C20: an event delivered by a torn-down transport (close, message, pong,
\* callback of a write) has no effect on the transport created afterwards:
\* the newer transport is not torn down, its connected flag does not change
\* and no request written on it is rejected.
StaleOutcomes ==
    (IF wcb_old = 0 THEN {on_close(Cur)} ELSE {on_sent(Cur)})
    \cup {on_message(Cur, msg) : msg \in Inbound("old")}
    \cup {on_pong(Cur)}

C20_StaleEventsInert ==
    (Running /\ stale > 0 /\ ws # "false" /\ ~disconnecting) =>
        \A r \in StaleOutcomes :
            /\ r.ws = ws
            /\ r.connected = connected
            /\ \A i \in DOMAIN r.out :
                  r.out[i].t = "rej" =>
                      ~(r.out[i].id \in DOMAIN req_map
                        /\ req_map[r.out[i].id].on = "live")

\* a transport was torn down, and a caller request has been written on the
\* connected transport that was created afterwards
C20_Witness ==
    /\ Running /\ stale > 0 /\ ws = "open" /\ connected
    /\ \E id \in CallerIds : req_map[id].on = "live"

====
